---- MODULE Spec2Model ----
(***************************************************************************)
(* Model of lfm.Map (minami14/lfm): a fixed-size table of shard slots,     *)
(* each anchoring a singly linked chain of key/value pairs that is         *)
(* maintained with compare-and-swap only.                                  *)
(*                                                                         *)
(* Memory layout, as in the source:                                        *)
(*   m.pairs[i]        a pointer to an atomic.Value ("cell")               *)
(*   cell              holds nil or a pointer to a keyValuePair; the only  *)
(*                     write to a cell is CompareAndSwap(nil, pair), so a  *)
(*                     cell is written at most once                        *)
(*   pair.nextPair     a pointer to the pair's own fresh cell; Delete      *)
(*                     redirects m.pairs[i] and pair.nextPair with         *)
(*                     CompareAndSwapPointer                               *)
(* Cells 1..size are the cells New allocates for the slots; the cell that  *)
(* the n-th allocated pair brings with it is cell size+n.                  *)
(***************************************************************************)
EXTENDS Integers, Sequences, FiniteSets, TLC

\* ------------------------------------------------------------------ bounds
\* Largest shard count handed to New.
MaxSize == 3
\* Pairs in the heap at one time (reachable ones, once no call is running).
MaxPairs == 4
\* Stores the main thread issues before it starts the other threads.
MaxSetup == 2
\* Calls issued by each thread of a concurrent run, after the setup.
MaxCalls == 2

\* Calls issued by all threads together in a run of insertions and Deletes.
MaxOps == 3
\* Largest hash value handed to the reduction of Map.index on its own.
MaxHash == 40

\* nil: the empty content of an atomic.Value, and the zero value of T.
Nil == 0

Threads == {1, 2}
\* Keys are byte strings: "a", "b", "c".
Keys == {<<97>>, <<98>>, <<99>>}
Values == {1, 2}

\* ------------------------------------------------------------ hash router
\* 64-bit words are kept as 8 bytes, least significant first.
RECURSIVE Xor(_, _, _)
Xor(a, b, n) ==
    IF n = 0 THEN 0
    ELSE ((a + b) % 2) + 2 * Xor(a \div 2, b \div 2, n - 1)

RECURSIVE MulSmall(_, _, _, _)
MulSmall(h, m, i, carry) ==
    IF i > 8 THEN <<>>
    ELSE LET t == h[i] * m + carry
         IN  <<t % 256>> \o MulSmall(h, m, i + 1, t \div 256)

RECURSIVE Add64(_, _, _, _)
Add64(x, y, i, carry) ==
    IF i > 8 THEN <<>>
    ELSE LET t == x[i] + y[i] + carry
         IN  <<t % 256>> \o Add64(x, y, i + 1, t \div 256)

\* h * 0x100000001b3 mod 2^64 = h * 0x1b3 + (h << 40) mod 2^64.
MulPrime(h) ==
    Add64(MulSmall(h, 435, 1, 0),
          [i \in 1..8 |-> IF i <= 5 THEN 0 ELSE h[i - 5]], 1, 0)

\* fnv.New64: the FNV-1 offset basis 0xcbf29ce484222325.
New64 == <<37, 35, 34, 132, 228, 156, 242, 203>>

\* h.Write: FNV-1, multiply then xor, byte by byte.
RECURSIVE Write(_, _)
Write(h, data) ==
    IF data = <<>> THEN h
    ELSE LET m == MulPrime(h)
         IN  Write([m EXCEPT ![1] = Xor(m[1], Head(data), 8)], Tail(data))

Sum64(key) == Write(New64, key)

\* int(h & (1<<63 - 1)) % m, folded from the most significant byte down.
RECURSIVE ModWord(_, _, _, _)
ModWord(h, m, i, r) ==
    IF i = 0 THEN r
    ELSE ModWord(h, m, i - 1,
                 (r * 256 + (IF i = 8 THEN h[8] % 128 ELSE h[i])) % m)

\* The reduction of Map.index for a table of n >= 0 slots, applied to the
\* hash h: 0 when len(m.pairs) is 1, else int(h & (1<<63 - 1)) % (n - 1).
\* With n = 0 the divisor is -1 and Go's remainder is 0.
Reduce(h, n) ==
    IF n <= 1 THEN 0 ELSE ModWord(h, n - 1, 8, 0)

\* The 64-bit word of value n < 2^16, with the sign bit as given by top
\* (0 or 128, the most significant byte).
Word(n, top) == <<n % 256, n \div 256, 0, 0, 0, 0, 0, top>>

\* Map.index for a table of n slots.
indexOf(key, n) == Reduce(Sum64(key), n)

\* ------------------------------------------------------------------ state
VARIABLES
    size,       \* len(m.pairs), fixed by New
    route,      \* key -> m.index(key), tabulated once: it never changes
    pairs,      \* m.pairs: slot i (0-based) is kept at i+1 -> cell
    cell,       \* content of every atomic.Value: Nil or a pair
    key,        \* pair -> key
    value,      \* pair -> value
    nextPair,   \* pair -> cell
    length,     \* m.length
    pc,         \* thread -> position in the running call
    arg,        \* thread -> the running (or last) call: op, key, value
    loc,        \* thread -> local variables of the running call
    ret,        \* thread -> result of the last call, once it has returned
    ncalls,     \* thread -> calls issued so far (after the setup)
    nsetup,     \* Stores issued by the main thread during the setup
    snap,       \* history: the map as it was when the last call began
    wrote,      \* history: thread -> key -> value of its last Store of the
                \*   key, Gone after its Delete of it, else Nil
    fresh,      \* history: thread -> its Load began after a successful Delete
    hist        \* history of the run, see NoHist

vars == <<size, route, pairs, cell, key, value, nextPair, length,
          pc, arg, loc, ret, ncalls, nsetup, snap, wrote, fresh, hist>>

heap == <<pairs, cell, key, value, nextPair>>
client == <<arg, ncalls, nsetup, snap, wrote, fresh, hist>>

\* History only, of the calls that ended before each thread's last call:
\*   inserted  keys an insertion call has returned for
\*   removed   keys a Delete call has returned true for
\*   wins      key -> LoadOrStore and StoreNotExists calls that reported
\*             inserted = true
\*   during    keys that were the target of a Delete while the sweep of the
\*             last Range call ran
\*   tried     hash values handed to the reduction of Map.index so far
\*   hit       the positions it returned for them
NoHist == [inserted |-> {}, removed |-> {}, wins |-> [k \in Keys |-> 0],
           during |-> {}, tried |-> 0, hit |-> {}]

\* History only: the thread's last write to the key was a Delete call.
Gone == 0 - 1

NoLoc == [current |-> Nil, ov |-> Nil, p |-> Nil, pp |-> Nil,
          np |-> Nil, npp |-> Nil, i |-> 0, seen |-> <<>>]
NoArg == [op |-> "none", key |-> <<>>, value |-> Nil]
NoRet == [st |-> "none", val |-> Nil, ok |-> FALSE, seen |-> <<>>]
Returned(v, b) == [st |-> "ret", val |-> v, ok |-> b, seen |-> <<>>]
Panicked == [st |-> "panic", val |-> Nil, ok |-> FALSE, seen |-> <<>>]

\* Map.index
index(k) == route[k]

\* --------------------------------------------------- reading the structure
\* The heap as one value.
Heap == [pairs |-> pairs, cell |-> cell, key |-> key, value |-> value,
         nextPair |-> nextPair]

\* The pairs met by a walk of heap h from cell c, in order (as Load and
\* Range walk); fuel stops a walk that would not end.
RECURSIVE Walk(_, _, _)
Walk(h, c, fuel) ==
    IF fuel = 0 \/ h.cell[c] = Nil THEN <<>>
    ELSE <<h.cell[c]>> \o Walk(h, h.nextPair[h.cell[c]], fuel - 1)

\* The chain of slot i (0-based).
ChainOf(h, i) == Walk(h, h.pairs[i + 1], Len(h.key) + 1)
Chain(i) == ChainOf(Heap, i)

\* What a Load(k) that runs alone returns: the value of the first pair of
\* k's chain with key k, or Nil.
RECURSIVE Find(_, _, _)
Find(c, k, fuel) ==
    IF fuel = 0 \/ cell[c] = Nil THEN Nil
    ELSE IF key[cell[c]] = k THEN value[cell[c]]
    ELSE Find(nextPair[cell[c]], k, fuel - 1)

Lookup(k) ==
    IF index(k) < size THEN Find(pairs[index(k) + 1], k, Len(key) + 1) ELSE Nil

Contents == [k \in Keys |-> Lookup(k)]
Entries(i) == LET ch == Chain(i)
              IN  [j \in 1..Len(ch) |-> <<key[ch[j]], value[ch[j]]>>]
Chains == [i \in 0..(size - 1) |-> Entries(i)]

\* Map.Length
Length == length

Snapshot == [contents |-> Contents, chains |-> Chains, length |-> Length]

\* ------------------------------------------------------------- addresses
\* An address means nothing but identity, and the collector frees what no
\* slot and no running call can reach. When no call is running, the heap is
\* therefore renamed to a canonical form: slot i points to cell i+1, the
\* reachable pairs are numbered in slot order and chain order, and pair n
\* points to cell size+n. A heap whose chains share a pair or a cell, or do
\* not end, is left as it is.
RECURSIVE Flatten(_, _, _)
Flatten(h, i, n) ==
    IF i = n THEN <<>> ELSE ChainOf(h, i) \o Flatten(h, i + 1, n)

Clean(h, n, live) ==
    /\ \A a, b \in 1..Len(live) : a # b => live[a] # live[b]
    /\ \A a, b \in 1..Len(live) :
          a # b => h.nextPair[live[a]] # h.nextPair[live[b]]
    /\ \A a, b \in 1..n : a # b => h.pairs[a] # h.pairs[b]
    /\ \A a \in 1..Len(live), b \in 1..n : h.nextPair[live[a]] # h.pairs[b]
    /\ \A i \in 0..(n - 1) : Len(ChainOf(h, i)) <= Len(h.key)

Compact(h) ==
    LET n == Len(h.pairs)
        live == Flatten(h, 0, n)
        name(e) == IF e = Nil THEN Nil
                   ELSE CHOOSE j \in 1..Len(live) : live[j] = e
    IN  IF ~Clean(h, n, live) THEN h
        ELSE [pairs |-> [i \in 1..n |-> i],
              cell |-> [c \in 1..(n + Len(live)) |->
                           IF c <= n THEN name(h.cell[h.pairs[c]])
                           ELSE name(h.cell[h.nextPair[live[c - n]]])],
              key |-> [j \in 1..Len(live) |-> h.key[live[j]]],
              value |-> [j \in 1..Len(live) |-> h.value[live[j]]],
              nextPair |-> [j \in 1..Len(live) |-> n + j]]

SetHeap(h) ==
    /\ pairs' = h.pairs
    /\ cell' = h.cell
    /\ key' = h.key
    /\ value' = h.value
    /\ nextPair' = h.nextPair

\* ---------------------------------------------------------- construction
\* New(size): one fresh, empty atomic.Value per slot, length zero.
New(n) ==
    /\ size = n
    /\ route = [k \in Keys |-> indexOf(k, n)]
    /\ pairs = [i \in 1..n |-> i]
    /\ cell = [i \in 1..n |-> Nil]
    /\ key = <<>>
    /\ value = <<>>
    /\ nextPair = <<>>
    /\ length = 0

\* No call has been made yet.
NoCalls ==
    /\ arg = [t \in Threads |-> NoArg]
    /\ loc = [t \in Threads |-> NoLoc]
    /\ ret = [t \in Threads |-> NoRet]
    /\ ncalls = [t \in Threads |-> 0]
    /\ nsetup = 0
    /\ snap = [contents |-> [k \in Keys |-> Nil],
               chains |-> [i \in 0..(size - 1) |-> <<>>],
               length |-> 0]
    /\ wrote = [t \in Threads |-> [k \in Keys |-> Nil]]
    /\ fresh = [t \in Threads |-> FALSE]
    /\ hist = NoHist

Init ==
    /\ \E n \in 1..MaxSize : New(n)
    /\ pc = [t \in Threads |-> "idle"]
    /\ NoCalls

\* New with any shard count, also zero or negative. make([]*atomic.Value,
\* size) panics on a negative size ("makeslice: len out of range"): no map
\* is returned and no call can follow (pc is "dead"); size then keeps the
\* count that was asked for. With size zero it returns an empty table.
InitNew ==
    /\ \E n \in (0 - 1)..MaxSize : New(n)
    /\ pc = [t \in Threads |-> IF size < 0 THEN "dead" ELSE "idle"]
    /\ NoCalls

\* return: the call of thread t ends with result r, leaving heap h.
Return(t, r, h) ==
    /\ pc' = [pc EXCEPT ![t] = "idle"]
    /\ loc' = [loc EXCEPT ![t] = NoLoc]
    /\ ret' = [ret EXCEPT ![t] = r]
    /\ SetHeap(IF \A u \in Threads \ {t} : pc[u] = "idle"
               THEN Compact(h) ELSE h)

\* The call of thread t goes on at label l.
Goto(t, l, newloc) ==
    /\ pc' = [pc EXCEPT ![t] = l]
    /\ loc' = [loc EXCEPT ![t] = newloc]
    /\ ret' = ret

\* A call begins at label l: its result is not there yet.
Begin(t, l, newloc) ==
    /\ pc' = [pc EXCEPT ![t] = l]
    /\ loc' = [loc EXCEPT ![t] = newloc]
    /\ ret' = [ret EXCEPT ![t] = NoRet]

\* m.pairs[i] with i outside the table: the call panics (index out of
\* range) before it has done anything.
Fault(t) ==
    /\ pc' = pc
    /\ loc' = loc
    /\ ret' = [ret EXCEPT ![t] = Panicked]

\* ------------------------------------------------- entering an operation
InsertOps == {"Store", "LoadOrStore", "LoadAndStore", "StoreNotExists"}

\* Store, LoadOrStore, LoadAndStore, StoreNotExists:
\* pair := &keyValuePair{key, value, nextPair: new(atomic.Value)};
\* i := m.index(key); current := m.pairs[i]
\* The pair is private to the call until a CompareAndSwap publishes it; it
\* is entered in the heap (Publish) at that moment, from arg[t].
EnterInsert(t, o, k, v) ==
    /\ pc[t] = "idle"
    /\ Len(key) + Cardinality({u \in Threads : pc[u] \in InsertOps}) < MaxPairs
    /\ arg' = [arg EXCEPT ![t] = [op |-> o, key |-> k, value |-> v]]
    /\ IF index(k) < size
       THEN Begin(t, o, [NoLoc EXCEPT !.current = pairs[index(k) + 1]])
       ELSE Fault(t)
    /\ UNCHANGED <<size, route, heap, length>>

\* Variant of Publish: the pair is built but the cell is left empty.
Publish_Unlinked(t, cur) ==
    /\ key' = Append(key, arg[t].key)
    /\ value' = Append(value, arg[t].value)
    /\ nextPair' = Append(nextPair, Len(cell) + 1)
    /\ cell' = Append(cell, Nil)
    /\ pairs' = pairs
    /\ Goto(t, "add", loc[t])

\* current.CompareAndSwap(nil, pair) succeeding on the empty cell cur: the
\* cell now holds the call's pair, whose nextPair is its own empty cell.
Publish(t, cur) ==
    /\ key' = Append(key, arg[t].key)
    /\ value' = Append(value, arg[t].value)
    /\ nextPair' = Append(nextPair, Len(cell) + 1)
    /\ cell' = Append([cell EXCEPT ![cur] = Len(key) + 1], Nil)
    /\ pairs' = pairs
    /\ Goto(t, "add", loc[t])

\* Load: i := m.index(key); current := m.pairs[i]
EnterLoad(t, k) ==
    /\ pc[t] = "idle"
    /\ arg' = [arg EXCEPT ![t] = [op |-> "Load", key |-> k, value |-> Nil]]
    /\ IF index(k) < size
       THEN Begin(t, "Load", [NoLoc EXCEPT !.current = pairs[index(k) + 1]])
       ELSE Fault(t)
    /\ UNCHANGED <<size, route, heap, length>>

\* Delete: i := m.index(key); ov := the pointer kept in m.pairs[i]
EnterDelete(t, k) ==
    /\ pc[t] = "idle"
    /\ arg' = [arg EXCEPT ![t] = [op |-> "Delete", key |-> k, value |-> Nil]]
    /\ IF index(k) < size
       THEN Begin(t, "Delete", [NoLoc EXCEPT !.i = index(k),
                                             !.ov = pairs[index(k) + 1]])
       ELSE Fault(t)
    /\ UNCHANGED <<size, route, heap, length>>

\* Range(f): f answers false at its stop-th call (never, when stop = Nil).
EnterRange(t, stop) ==
    /\ pc[t] = "idle"
    /\ arg' = [arg EXCEPT ![t] = [op |-> "Range", key |-> <<>>, value |-> stop]]
    /\ Begin(t, "Range", NoLoc)
    /\ UNCHANGED <<size, route, heap, length>>

\* Variant of Store: a key that is already stored keeps its old value.
Store_KeepsOldValue(t) ==
    /\ pc[t] = "Store"
    /\ LET cur == loc[t].current
           p == cell[cur]
       IN  IF p = Nil
           THEN Publish(t, cur)
           ELSE IF key[p] = arg[t].key
           THEN Return(t, Returned(Nil, FALSE), Heap)
           ELSE /\ Goto(t, "Store", [loc[t] EXCEPT !.current = nextPair[p]])
                /\ UNCHANGED heap
    /\ UNCHANGED <<size, route, length, client>>

\* ---------------------------------------------------------------- Store
\* One turn of the loop. A cell is written once, so a failed
\* CompareAndSwap(nil, pair), the Load that follows it and the access to the
\* loaded pair see the same pair: they are one step, taken at the access.
Store(t) ==
    /\ pc[t] = "Store"
    /\ LET cur == loc[t].current
           p == cell[cur]
       IN  IF p = Nil
           THEN Publish(t, cur)
           ELSE IF key[p] = arg[t].key
           THEN Return(t, Returned(Nil, FALSE),
                       [Heap EXCEPT !.value[p] = arg[t].value])
           ELSE /\ Goto(t, "Store", [loc[t] EXCEPT !.current = nextPair[p]])
                /\ UNCHANGED heap
    /\ UNCHANGED <<size, route, length, client>>

\* Variant of AddLength: the counter is not touched.
AddLength_Forgotten(t) ==
    /\ pc[t] = "add"
    /\ length' = length
    /\ Return(t, CASE arg[t].op = "LoadOrStore" -> Returned(arg[t].value, TRUE)
                   [] arg[t].op = "StoreNotExists" -> Returned(Nil, TRUE)
                   [] OTHER -> Returned(Nil, FALSE),
              Heap)
    /\ UNCHANGED <<size, route, client>>

\* atomic.AddInt64(&m.length, 1) after a successful CompareAndSwap, and the
\* return that follows it.
AddLength(t) ==
    /\ pc[t] = "add"
    /\ length' = length + 1
    /\ Return(t, CASE arg[t].op = "LoadOrStore" -> Returned(arg[t].value, TRUE)
                   [] arg[t].op = "StoreNotExists" -> Returned(Nil, TRUE)
                   [] OTHER -> Returned(Nil, FALSE),
              Heap)
    /\ UNCHANGED <<size, route, client>>

\* ----------------------------------------------------------------- Load
Load(t) ==
    /\ pc[t] = "Load"
    /\ LET p == cell[loc[t].current]
       IN  IF p = Nil
           THEN Return(t, Returned(Nil, FALSE), Heap)
           ELSE IF key[p] = arg[t].key
           THEN Return(t, Returned(value[p], TRUE), Heap)
           ELSE /\ Goto(t, "Load", [loc[t] EXCEPT !.current = nextPair[p]])
                /\ UNCHANGED heap
    /\ UNCHANGED <<size, route, length, client>>

\* Variant of LoadOrStore: a present key is overwritten, as Store does.
LoadOrStore_Overwrites(t) ==
    /\ pc[t] = "LoadOrStore"
    /\ LET cur == loc[t].current
           p == cell[cur]
       IN  IF p = Nil
           THEN Publish(t, cur)
           ELSE IF key[p] = arg[t].key
           THEN Return(t, Returned(value[p], FALSE),
                       [Heap EXCEPT !.value[p] = arg[t].value])
           ELSE /\ Goto(t, "LoadOrStore", [loc[t] EXCEPT !.current = nextPair[p]])
                /\ UNCHANGED heap
    /\ UNCHANGED <<size, route, length, client>>

\* Variant of LoadOrStore: a key that is found is reported as inserted.
LoadOrStore_ReportsInserted(t) ==
    /\ pc[t] = "LoadOrStore"
    /\ LET cur == loc[t].current
           p == cell[cur]
       IN  IF p = Nil
           THEN Publish(t, cur)
           ELSE IF key[p] = arg[t].key
           THEN Return(t, Returned(value[p], TRUE), Heap)
           ELSE /\ Goto(t, "LoadOrStore",
                        [loc[t] EXCEPT !.current = nextPair[p]])
                /\ UNCHANGED heap
    /\ UNCHANGED <<size, route, length, client>>

\* ---------------------------------------------------------- LoadOrStore
LoadOrStore(t) ==
    /\ pc[t] = "LoadOrStore"
    /\ LET cur == loc[t].current
           p == cell[cur]
       IN  IF p = Nil
           THEN Publish(t, cur)
           ELSE IF key[p] = arg[t].key
           THEN Return(t, Returned(value[p], FALSE), Heap)
           ELSE /\ Goto(t, "LoadOrStore",
                        [loc[t] EXCEPT !.current = nextPair[p]])
                /\ UNCHANGED heap
    /\ UNCHANGED <<size, route, length, client>>

\* Variant of LoadAndStore: the new value is returned, not the old one.
LoadAndStore_ReturnsNew(t) ==
    /\ pc[t] = "LoadAndStore"
    /\ LET cur == loc[t].current
           p == cell[cur]
       IN  IF p = Nil
           THEN Publish(t, cur)
           ELSE IF key[p] = arg[t].key
           THEN Return(t, Returned(arg[t].value, FALSE),
                       [Heap EXCEPT !.value[p] = arg[t].value])
           ELSE /\ Goto(t, "LoadAndStore", [loc[t] EXCEPT !.current = nextPair[p]])
                /\ UNCHANGED heap
    /\ UNCHANGED <<size, route, length, client>>

\* --------------------------------------------------------- LoadAndStore
LoadAndStore(t) ==
    /\ pc[t] = "LoadAndStore"
    /\ LET cur == loc[t].current
           p == cell[cur]
       IN  IF p = Nil
           THEN Publish(t, cur)
           ELSE IF key[p] = arg[t].key
           THEN Return(t, Returned(value[p], FALSE),
                       [Heap EXCEPT !.value[p] = arg[t].value])
           ELSE /\ Goto(t, "LoadAndStore",
                        [loc[t] EXCEPT !.current = nextPair[p]])
                /\ UNCHANGED heap
    /\ UNCHANGED <<size, route, length, client>>

\* Variant of StoreNotExists: a present key is reported as inserted.
StoreNotExists_AlwaysTrue(t) ==
    /\ pc[t] = "StoreNotExists"
    /\ LET cur == loc[t].current
           p == cell[cur]
       IN  IF p = Nil
           THEN Publish(t, cur)
           ELSE IF key[p] = arg[t].key
           THEN Return(t, Returned(Nil, TRUE), Heap)
           ELSE /\ Goto(t, "StoreNotExists", [loc[t] EXCEPT !.current = nextPair[p]])
                /\ UNCHANGED heap
    /\ UNCHANGED <<size, route, length, client>>

\* ------------------------------------------------------- StoreNotExists
StoreNotExists(t) ==
    /\ pc[t] = "StoreNotExists"
    /\ LET cur == loc[t].current
           p == cell[cur]
       IN  IF p = Nil
           THEN Publish(t, cur)
           ELSE IF key[p] = arg[t].key
           THEN Return(t, Returned(Nil, FALSE), Heap)
           ELSE /\ Goto(t, "StoreNotExists",
                        [loc[t] EXCEPT !.current = nextPair[p]])
                /\ UNCHANGED heap
    /\ UNCHANGED <<size, route, length, client>>

\* --------------------------------------------------------------- Delete
\* pv := m.pairs[i]; v := pv.Load(); the nil test and the key test on the
\* head. (A slot or a nextPair field is redirected only past a pair, so it
\* keeps pointing to a cell for as long as that cell is empty: reading the
\* field and loading its cell are one step.)
Delete(t) ==
    /\ pc[t] = "Delete"
    /\ LET p == cell[pairs[loc[t].i + 1]]
       IN  IF p = Nil
           THEN Return(t, Returned(Nil, FALSE), Heap)
           ELSE /\ IF key[p] = arg[t].key
                   THEN Goto(t, "DeleteHeadNext", [loc[t] EXCEPT !.p = p])
                   ELSE Goto(t, "DeleteOv", [loc[t] EXCEPT !.p = p, !.pp = p])
                /\ UNCHANGED heap
    /\ UNCHANGED <<size, route, length, client>>

\* Variant of DeleteHeadNext: the new head is taken one entry too far.
DeleteHeadNext_SkipsSuccessor(t) ==
    /\ pc[t] = "DeleteHeadNext"
    /\ LET c == nextPair[loc[t].p]
       IN  Goto(t, "DeleteHeadCAS",
                [loc[t] EXCEPT !.npp = IF cell[c] = Nil THEN c
                                       ELSE nextPair[cell[c]]])
    /\ UNCHANGED <<size, route, heap, length, client>>

\* unsafe.Pointer(p.nextPair): the new value of the head CAS is read first.
DeleteHeadNext(t) ==
    /\ pc[t] = "DeleteHeadNext"
    /\ Goto(t, "DeleteHeadCAS", [loc[t] EXCEPT !.npp = nextPair[loc[t].p]])
    /\ UNCHANGED <<size, route, heap, length, client>>

\* Variant of DeleteHeadCAS: a failed CAS starts the call over.
DeleteHeadCAS_Retries(t) ==
    /\ pc[t] = "DeleteHeadCAS"
    /\ IF pairs[loc[t].i + 1] = loc[t].ov
       THEN /\ pairs' = [pairs EXCEPT ![loc[t].i + 1] = loc[t].npp]
            /\ Goto(t, "sub", loc[t])
            /\ UNCHANGED <<cell, key, value, nextPair>>
       ELSE /\ Goto(t, "Delete", [NoLoc EXCEPT !.i = loc[t].i,
                                               !.ov = pairs[loc[t].i + 1]])
            /\ UNCHANGED heap
    /\ UNCHANGED <<size, route, length, client>>

\* atomic.CompareAndSwapPointer(&m.pairs[i], ov, p.nextPair)
DeleteHeadCAS(t) ==
    /\ pc[t] = "DeleteHeadCAS"
    /\ IF pairs[loc[t].i + 1] = loc[t].ov
       THEN /\ pairs' = [pairs EXCEPT ![loc[t].i + 1] = loc[t].npp]
            /\ Goto(t, "sub", loc[t])
            /\ UNCHANGED <<cell, key, value, nextPair>>
       ELSE Return(t, Returned(Nil, FALSE), Heap)
    /\ UNCHANGED <<size, route, length, client>>

\* atomic.AddInt64(&m.length, -1); return true
SubLength(t) ==
    /\ pc[t] = "sub"
    /\ length' = length - 1
    /\ Return(t, Returned(Nil, TRUE), Heap)
    /\ UNCHANGED <<size, route, client>>

\* ov := the pointer kept in pp.nextPair
DeleteOv(t) ==
    /\ pc[t] = "DeleteOv"
    /\ Goto(t, "DeleteNext", [loc[t] EXCEPT !.ov = nextPair[loc[t].pp]])
    /\ UNCHANGED <<size, route, heap, length, client>>

\* nv := pp.nextPair.Load(); np stays nil when nv is nil, and np.key then
\* dereferences nil: the call panics.
DeleteNext(t) ==
    /\ pc[t] = "DeleteNext"
    /\ LET nv == cell[nextPair[loc[t].pp]]
       IN  IF nv = Nil
           THEN Return(t, Panicked, Heap)
           ELSE /\ IF key[nv] = arg[t].key
                   THEN Goto(t, "DeleteNpp", [loc[t] EXCEPT !.np = nv])
                   ELSE Goto(t, "DeleteAdvance", [loc[t] EXCEPT !.np = nv])
                /\ UNCHANGED heap
    /\ UNCHANGED <<size, route, length, client>>

\* Variant of DeleteNpp: the CAS is given pp.nextPair, the value it holds.
DeleteNpp_ReadsPp(t) ==
    /\ pc[t] = "DeleteNpp"
    /\ Goto(t, "DeleteCAS", [loc[t] EXCEPT !.npp = nextPair[loc[t].pp]])
    /\ UNCHANGED <<size, route, heap, length, client>>

\* npp = unsafe.Pointer(np.nextPair), used by the CAS only
DeleteNpp(t) ==
    /\ pc[t] = "DeleteNpp"
    /\ Goto(t, "DeleteCAS", [loc[t] EXCEPT !.npp = nextPair[loc[t].np]])
    /\ UNCHANGED <<size, route, heap, length, client>>

\* atomic.CompareAndSwapPointer(&pp.nextPair, ov, npp)
DeleteCAS(t) ==
    /\ pc[t] = "DeleteCAS"
    /\ IF nextPair[loc[t].pp] = loc[t].ov
       THEN /\ nextPair' = [nextPair EXCEPT ![loc[t].pp] = loc[t].npp]
            /\ Goto(t, "sub", loc[t])
            /\ UNCHANGED <<pairs, cell, key, value>>
       ELSE Return(t, Returned(Nil, FALSE), Heap)
    /\ UNCHANGED <<size, route, length, client>>

\* pv := pp.nextPair.Load(); if pv == nil return false; pp = pv
DeleteAdvance(t) ==
    /\ pc[t] = "DeleteAdvance"
    /\ LET pv == cell[nextPair[loc[t].pp]]
       IN  IF pv = Nil
           THEN Return(t, Returned(Nil, FALSE), Heap)
           ELSE /\ Goto(t, "DeleteOv", [loc[t] EXCEPT !.pp = pv, !.np = Nil])
                /\ UNCHANGED heap
    /\ UNCHANGED <<size, route, length, client>>

\* ---------------------------------------------------------------- Range
\* for _, pair := range m.pairs { current := pair.Load(); ... }
Range(t) ==
    /\ pc[t] = "Range"
    /\ IF loc[t].i = size
       THEN Return(t, [Returned(Nil, FALSE) EXCEPT !.seen = loc[t].seen], Heap)
       ELSE /\ LET p == cell[pairs[loc[t].i + 1]]
               IN  IF p = Nil
                   THEN Goto(t, "Range", [loc[t] EXCEPT !.i = @ + 1])
                   ELSE Goto(t, "RangeVisit", [loc[t] EXCEPT !.p = p])
            /\ UNCHANGED heap
    /\ UNCHANGED <<size, route, length, client>>

\* if !f(p.key, p.value) { return }
RangeVisit(t) ==
    /\ pc[t] = "RangeVisit"
    /\ LET p == loc[t].p
           seen == Append(loc[t].seen, <<key[p], value[p]>>)
       IN  IF Len(seen) = arg[t].value
           THEN Return(t, [Returned(Nil, FALSE) EXCEPT !.seen = seen], Heap)
           ELSE /\ Goto(t, "RangeNext", [loc[t] EXCEPT !.seen = seen])
                /\ UNCHANGED heap
    /\ UNCHANGED <<size, route, length, client>>

\* Variant of RangeNext: the sweep leaves a chain after its head.
RangeNext_HeadOnly(t) ==
    /\ pc[t] = "RangeNext"
    /\ Goto(t, "Range", [loc[t] EXCEPT !.i = @ + 1, !.p = Nil])
    /\ UNCHANGED <<size, route, heap, length, client>>

\* Variant of RangeNext: the sweep leaves a chain when the entry it stands on
\* is no longer linked from the slots.
RangeNext_EndsOnUnlinked(t) ==
    /\ pc[t] = "RangeNext"
    /\ LET n == cell[nextPair[loc[t].p]]
           linked == \E i \in 0..(size - 1) :
                         \E j \in 1..Len(Chain(i)) : Chain(i)[j] = loc[t].p
       IN  IF n = Nil \/ ~linked
           THEN Goto(t, "Range", [loc[t] EXCEPT !.i = @ + 1, !.p = Nil])
           ELSE Goto(t, "RangeVisit", [loc[t] EXCEPT !.p = n])
    /\ UNCHANGED <<size, route, heap, length, client>>

\* current = p.nextPair.Load(); if current == nil { break }
RangeNext(t) ==
    /\ pc[t] = "RangeNext"
    /\ LET n == cell[nextPair[loc[t].p]]
       IN  IF n = Nil
           THEN Goto(t, "Range", [loc[t] EXCEPT !.i = @ + 1, !.p = Nil])
           ELSE Goto(t, "RangeVisit", [loc[t] EXCEPT !.p = n])
    /\ UNCHANGED <<size, route, heap, length, client>>

\* ------------------------------------------------------------ the client
\* What the client remembers of its calls: sn is the map as the call finds it.
Remember(t, o, k, v, sn) ==
    /\ snap' = sn
    /\ wrote' = [wrote EXCEPT ![t][k] =
                    IF o = "Store" THEN v
                    ELSE IF o = "Delete" THEN Gone
                    ELSE IF o = "LoadAndStore" THEN Nil
                    ELSE @]

\* A single thread issues any calls, one after the other.
SeqCall ==
    /\ UNCHANGED <<ncalls, nsetup, fresh, hist>>
    /\ \E sn \in {Snapshot} :
       \E o \in InsertOps \cup {"Load", "Delete", "Range"} :
          IF o \in InsertOps
          THEN \E k \in Keys, v \in Values :
                  EnterInsert(1, o, k, v) /\ Remember(1, o, k, v, sn)
          ELSE IF o = "Load"
          THEN \E k \in Keys : EnterLoad(1, k) /\ Remember(1, o, k, Nil, sn)
          ELSE IF o = "Delete"
          THEN \E k \in Keys : EnterDelete(1, k) /\ Remember(1, o, k, Nil, sn)
          ELSE \E stop \in {Nil, 1} :
                  EnterRange(1, stop) /\ snap' = sn /\ wrote' = wrote

Inserts(t) ==
    \/ Store(t)
    \/ LoadOrStore(t)
    \/ LoadAndStore(t)
    \/ StoreNotExists(t)
    \/ AddLength(t)

Deletes(t) ==
    \/ Delete(t)
    \/ DeleteHeadNext(t)
    \/ DeleteHeadCAS(t)
    \/ DeleteOv(t)
    \/ DeleteNext(t)
    \/ DeleteNpp(t)
    \/ DeleteCAS(t)
    \/ DeleteAdvance(t)
    \/ SubLength(t)

Ranges(t) ==
    \/ Range(t)
    \/ RangeVisit(t)
    \/ RangeNext(t)

NextSeq ==
    \/ SeqCall
    \/ Inserts(1)
    \/ Load(1)
    \/ Deletes(1)
    \/ Ranges(1)

SpecSeq == Init /\ [][NextSeq]_vars

\* The same single thread, on a map built with any shard count.
SpecNew == InitNew /\ [][NextSeq]_vars

\* Several threads issue Stores, and nothing else, on a new map.
StoresCall ==
    /\ \E t \in Threads, k \in Keys, v \in Values :
          /\ ncalls[t] < MaxCalls
          /\ EnterInsert(t, "Store", k, v)
          /\ ncalls' = [ncalls EXCEPT ![t] = @ + 1]
          /\ wrote' = [wrote EXCEPT ![t][k] = v]
    /\ UNCHANGED <<nsetup, snap, fresh, hist>>

NextStores ==
    \/ StoresCall
    \/ \E t \in Threads : Store(t)
    \/ \E t \in Threads : AddLength(t)

SpecStores == Init /\ [][NextStores]_vars

\* The main thread fills the map with Stores before any other call.
SetupCall ==
    /\ nsetup < MaxSetup
    /\ \A t \in Threads : ncalls[t] = 0
    /\ nsetup' = nsetup + 1
    /\ \E k \in Keys, v \in Values :
          /\ EnterInsert(1, "Store", k, v)
          /\ wrote' = [wrote EXCEPT ![1][k] = v]
    /\ UNCHANGED <<ncalls, snap, fresh, hist>>

SetupDone == pc[1] \notin {"Store", "add"}

\* Delete(k) has returned true in a thread that has made no call since.
Deleted(k) ==
    \E u \in Threads :
        /\ pc[u] = "idle"
        /\ arg[u].op = "Delete"
        /\ arg[u].key = k
        /\ ret[u] = Returned(Nil, TRUE)

\* After the setup, the threads issue Deletes and Loads.
DeletesCall ==
    /\ SetupDone
    /\ \E t \in Threads, k \in Keys :
          /\ ncalls[t] < MaxCalls
          /\ ncalls' = [ncalls EXCEPT ![t] = @ + 1]
          /\ \/ EnterDelete(t, k) /\ fresh' = [fresh EXCEPT ![t] = FALSE]
             \/ EnterLoad(t, k) /\ fresh' = [fresh EXCEPT ![t] = Deleted(k)]
    /\ UNCHANGED <<nsetup, snap, wrote, hist>>

NextDeletes ==
    \/ SetupCall
    \/ Store(1)
    \/ AddLength(1)
    \/ DeletesCall
    \/ \E t \in Threads : Deletes(t)
    \/ \E t \in Threads : Load(t)

SpecDeletes == Init /\ [][NextDeletes]_vars

\* Calls issued after the setup, by all threads together.
RECURSIVE Sum(_, _)
Sum(f, S) ==
    IF S = {} THEN 0
    ELSE LET x == CHOOSE y \in S : TRUE IN f[x] + Sum(f, S \ {x})

Issued == Sum(ncalls, Threads)

\* The history, once the last call of thread t is added to it.
Fold(t) ==
    [hist EXCEPT
        !.inserted = IF arg[t].op \in InsertOps /\ ret[t].st = "ret"
                     THEN @ \cup {arg[t].key} ELSE @,
        !.removed = IF arg[t].op = "Delete" /\ ret[t] = Returned(Nil, TRUE)
                    THEN @ \cup {arg[t].key} ELSE @]

\* The main thread fills the map with Stores of its own number before any
\* other call.
FillCall ==
    /\ nsetup < MaxSetup
    /\ \A t \in Threads : ncalls[t] = 0
    /\ nsetup' = nsetup + 1
    /\ hist' = Fold(1)
    /\ \E k \in Keys : EnterInsert(1, "Store", k, 1)
    /\ UNCHANGED <<ncalls, snap, wrote, fresh>>

\* After the setup, the threads issue insertions and Deletes; a thread
\* stores its own number as the value.
MutCall ==
    /\ SetupDone
    /\ \E t \in Threads :
          /\ ncalls[t] < MaxCalls
          /\ Issued < MaxOps
          /\ ncalls' = [ncalls EXCEPT ![t] = @ + 1]
          /\ hist' = Fold(t)
          /\ \/ \E o \in InsertOps, k \in Keys : EnterInsert(t, o, k, t)
             \/ \E k \in Keys : EnterDelete(t, k)
    /\ UNCHANGED <<nsetup, snap, wrote, fresh>>

NextMut ==
    \/ FillCall
    \/ MutCall
    \/ \E t \in Threads : Inserts(t)
    \/ \E t \in Threads : Deletes(t)

SpecMut == Init /\ [][NextMut]_vars

RaceOps == {"LoadOrStore", "StoreNotExists"}

\* The last call of thread t reported inserted = true.
Won(t) ==
    /\ pc[t] = "idle"
    /\ arg[t].op \in RaceOps
    /\ ret[t].st = "ret"
    /\ ret[t].ok

\* After the setup, the threads issue LoadOrStore and StoreNotExists calls,
\* each with its own number as the value; snap is the map as the first of
\* these calls finds it.
RaceCall ==
    /\ SetupDone
    /\ \E t \in Threads :
          /\ ncalls[t] < MaxCalls
          /\ ncalls' = [ncalls EXCEPT ![t] = @ + 1]
          /\ hist' = IF Won(t)
                     THEN [hist EXCEPT !.wins[arg[t].key] = @ + 1] ELSE hist
          /\ \E o \in RaceOps, k \in Keys : EnterInsert(t, o, k, t)
    /\ \E sn \in {Snapshot} : snap' = IF Issued = 0 THEN sn ELSE snap
    /\ UNCHANGED <<nsetup, wrote, fresh>>

NextRace ==
    \/ FillCall
    \/ RaceCall
    \/ \E t \in Threads : LoadOrStore(t)
    \/ \E t \in Threads : StoreNotExists(t)
    \/ \E t \in Threads : Store(t)
    \/ \E t \in Threads : AddLength(t)

SpecRace == Init /\ [][NextRace]_vars

\* The threads that have called Range, and whether that call still runs.
Sweeper == {t \in Threads : arg[t].op = "Range"}

Sweeping == \E t \in Sweeper : pc[t] # "idle"

\* After the setup, the threads issue Stores and Deletes, and one of them one
\* Range whose visitor never stops it, as its last call. snap is the map as
\* the Range finds it; hist.during collects the keys of the Deletes that run
\* while the Range runs.
SweepCall ==
    /\ SetupDone
    /\ \E t \in Threads \ Sweeper :
          /\ ncalls[t] < MaxCalls
          /\ Issued < MaxOps
          /\ ncalls' = [ncalls EXCEPT ![t] = @ + 1]
          /\ \/ /\ Sweeper = {}
                /\ EnterRange(t, Nil)
                /\ \E sn \in {Snapshot} : snap' = sn
                /\ hist' = [hist EXCEPT !.during =
                               {arg[u].key : u \in {v \in Threads :
                                   pc[v] # "idle" /\ arg[v].op = "Delete"}}]
             \/ /\ \E k \in Keys : EnterInsert(t, "Store", k, t)
                /\ UNCHANGED <<snap, hist>>
             \/ \E k \in Keys :
                   /\ EnterDelete(t, k)
                   /\ snap' = snap
                   /\ hist' = IF Sweeping
                              THEN [hist EXCEPT !.during = @ \cup {k}]
                              ELSE hist
    /\ UNCHANGED <<nsetup, wrote, fresh>>

NextSweep ==
    \/ FillCall
    \/ SweepCall
    \/ \E t \in Threads : Store(t)
    \/ \E t \in Threads : AddLength(t)
    \/ \E t \in Threads : Deletes(t)
    \/ \E t \in Threads : Ranges(t)

SpecSweep == Init /\ [][NextSweep]_vars

\* After the setup, any thread issues any call.
AnyCall ==
    /\ SetupDone
    /\ \E t \in Threads :
          /\ ncalls[t] < MaxCalls
          /\ Issued < MaxOps
          /\ ncalls' = [ncalls EXCEPT ![t] = @ + 1]
          /\ \/ \E o \in InsertOps, k \in Keys : EnterInsert(t, o, k, t)
             \/ \E k \in Keys : EnterDelete(t, k)
             \/ \E k \in Keys : EnterLoad(t, k)
             \/ EnterRange(t, Nil)
    /\ UNCHANGED <<nsetup, snap, wrote, fresh, hist>>

\* The steps of the call that thread t is running.
Step(t) ==
    \/ Inserts(t)
    \/ Load(t)
    \/ Deletes(t)
    \/ Ranges(t)

Next ==
    \/ FillCall
    \/ AnyCall
    \/ \E t \in Threads : Step(t)

Spec == Init /\ [][Next]_vars

\* A thread that is in a call keeps running: goroutines are scheduled
\* fairly and no step of a call waits for anything.
SpecLive == Spec /\ \A t \in Threads : WF_vars(Step(t))

\* The reduction of Map.index is applied to the hash values 0, 1, 2, ...,
\* with the sign bit set or clear, on a new map.
IndexCall ==
    /\ hist.tried <= MaxHash
    /\ \E top \in {0, 128} :
          hist' = [hist EXCEPT !.tried = @ + 1,
                               !.hit = @ \cup {Reduce(Word(hist.tried, top), size)}]
    /\ UNCHANGED <<size, route, heap, length, pc, loc, ret,
                   arg, ncalls, nsetup, snap, wrote, fresh>>

NextIndex == IndexCall

SpecIndex == Init /\ [][NextIndex]_vars

\* ---------------------------------------------------------------- claims
Quiescent == \A t \in Threads : pc[t] = "idle"

\* The call o of the single thread has ended (returned or panicked).
Done(o) == pc[1] = "idle" /\ arg[1].op = o /\ ret[1].st # "none"

SameShard(a, b) == a # b /\ index(a) = index(b)

\* C1: once Delete(k) has returned true and nothing inserts k, a Load(k)
\* that starts afterwards reports found = false.
C1_LoadAfterDeleteNotFound ==
    \A t \in Threads :
        (pc[t] = "idle" /\ arg[t].op = "Load" /\ ret[t].st = "ret" /\ fresh[t])
            => ~ret[t].ok

\* C2: Delete(k) of a key that is not stored returns false, without a
\* fault, and leaves every chain and the size counter as they were.
C2_DeleteAbsentReturnsFalse ==
    (Done("Delete") /\ snap.contents[arg[1].key] = Nil)
        => /\ ret[1] = Returned(Nil, FALSE)
           /\ Chains = snap.chains
           /\ Length = snap.length

\* C3: single-threaded, a Load(k) returns (v, true) when the last write to
\* k was Store(k, v) and k was not deleted since, whatever was done to the
\* other keys.
C3_LoadReturnsLastStore ==
    (Done("Load") /\ wrote[1][arg[1].key] \in Values)
        => ret[1] = Returned(wrote[1][arg[1].key], TRUE)

C3_Witness ==
    /\ Done("Load")
    /\ wrote[1][arg[1].key] \in Values
    /\ ret[1].ok
    /\ \E b \in Keys : SameShard(arg[1].key, b) /\ wrote[1][b] = Gone

\* C4: concurrent Stores by threads on disjoint key sets, no Delete: once
\* all calls have returned, every stored key is found with the last value
\* its thread stored, and no other key is found.
DisjointKeys ==
    \A k \in Keys : \A t, u \in Threads :
        (t # u /\ wrote[t][k] # Nil) => wrote[u][k] = Nil

C4_DisjointStoresConverge ==
    (Quiescent /\ DisjointKeys)
        => \A k \in Keys :
              /\ \A t \in Threads : wrote[t][k] # Nil => Lookup(k) = wrote[t][k]
              /\ (\A t \in Threads : wrote[t][k] = Nil) => Lookup(k) = Nil

\* Two threads have each stored a key of the same shard, and one of them
\* has stored its key twice.
C4_Witness ==
    /\ Quiescent
    /\ DisjointKeys
    /\ \E a, b \in Keys :
          /\ SameShard(a, b)
          /\ wrote[1][a] # Nil
          /\ wrote[2][b] # Nil
          /\ Lookup(a) # Nil
          /\ Lookup(b) # Nil
    /\ \E t \in Threads : ncalls[t] = 2 /\ Cardinality({k \in Keys : wrote[t][k] # Nil}) = 1

\* C5: single-threaded, LoadOrStore(k, v) on an absent key inserts k with
\* v and returns (v, true); on a present key with value u it returns
\* (u, false) and changes neither the value, the chains nor the counter.
C5_LoadOrStore ==
    Done("LoadOrStore")
        => LET k == arg[1].key
               v == arg[1].value
               u == snap.contents[k]
           IN  IF u = Nil
               THEN /\ ret[1] = Returned(v, TRUE)
                    /\ Lookup(k) = v
                    /\ Length = snap.length + 1
               ELSE /\ ret[1] = Returned(u, FALSE)
                    /\ Lookup(k) = u
                    /\ Chains = snap.chains
                    /\ Length = snap.length

C5_Witness ==
    /\ Done("LoadOrStore")
    /\ snap.contents[arg[1].key] # Nil
    /\ snap.contents[arg[1].key] # arg[1].value
    /\ ~ret[1].ok

\* C6: single-threaded, StoreNotExists(k, v) returns true iff k was absent
\* just before; if true, k is then found with v; if false, the value of k
\* and the counter are unchanged.
C6_StoreNotExists ==
    Done("StoreNotExists")
        => LET k == arg[1].key
           IN  /\ ret[1].st = "ret"
               /\ ret[1].ok <=> (snap.contents[k] = Nil)
               /\ ret[1].ok => Lookup(k) = arg[1].value
               /\ ~ret[1].ok => /\ Lookup(k) = snap.contents[k]
                                /\ Length = snap.length

C6_Witness ==
    /\ Done("StoreNotExists")
    /\ ~ret[1].ok
    /\ snap.contents[arg[1].key] # arg[1].value
    /\ snap.length >= 2

\* C7: single-threaded, LoadAndStore(k, v) on a present key with value u
\* stores v, returns u and leaves the counter; on an absent key it inserts
\* k with v, adds one to the counter and returns no previous value. In both
\* cases k is then found with v.
C7_LoadAndStore ==
    Done("LoadAndStore")
        => LET k == arg[1].key
               u == snap.contents[k]
           IN  /\ ret[1].st = "ret"
               /\ ret[1].val = u
               /\ Lookup(k) = arg[1].value
               /\ Length = IF u = Nil THEN snap.length + 1 ELSE snap.length

C7_Witness ==
    /\ Done("LoadAndStore")
    /\ ret[1].val \in Values
    /\ ret[1].val # arg[1].value

\* C8: single-threaded, with two keys of one shard stored, Delete of either
\* returns true, the deleted key is no longer found and the other keeps its
\* value, whichever of them is the head; and a Store of a new key in a
\* shard still inserts it (it is found with its value).
C8_DeleteLeavesNeighbour ==
    /\ (Done("Delete") /\ snap.contents[arg[1].key] # Nil)
          => /\ ret[1] = Returned(Nil, TRUE)
             /\ Lookup(arg[1].key) = Nil
             /\ \A b \in Keys :
                   SameShard(arg[1].key, b) => Lookup(b) = snap.contents[b]
    /\ (Done("Store") /\ snap.contents[arg[1].key] = Nil)
          => /\ Lookup(arg[1].key) = arg[1].value
             /\ \A b \in Keys :
                   SameShard(arg[1].key, b) => Lookup(b) = snap.contents[b]

\* The deleted key was not the head of its chain, and its neighbour stays.
C8_Witness ==
    /\ Done("Delete")
    /\ ret[1].ok
    /\ \E i \in 0..(size - 1) :
          /\ Len(snap.chains[i]) >= 2
          /\ snap.chains[i][2][1] = arg[1].key
          /\ Len(Chain(i)) = Len(snap.chains[i]) - 1

\* C9: after Stores and no Delete, in any interleaving, Length() is the
\* number of distinct keys stored once all calls have returned.
C9_LengthCountsKeys ==
    Quiescent
        => Length = Cardinality({k \in Keys :
                                   \E t \in Threads : wrote[t][k] # Nil})

\* Both threads have stored the same key, and another key is stored too.
C9_Witness ==
    /\ Quiescent
    /\ \E k \in Keys : \A t \in Threads : wrote[t][k] # Nil
    /\ Length = 2

\* C10: a Range that runs alone, with a visitor that never stops it, calls
\* the visitor once for every stored pair and for nothing else, slot after
\* slot and, within a slot, from the head of the chain to its end.
RECURSIVE Sweep(_, _, _)
Sweep(chains, i, n) ==
    IF i = n THEN <<>> ELSE chains[i] \o Sweep(chains, i + 1, n)

C10_RangeVisitsAll ==
    (Done("Range") /\ arg[1].value = Nil)
        => /\ ret[1].st = "ret"
           /\ ret[1].seen = Sweep(snap.chains, 0, size)
           /\ \A k \in Keys :
                 {j \in 1..Len(ret[1].seen) : ret[1].seen[j][1] = k}
                     = IF Lookup(k) = Nil THEN {}
                       ELSE {CHOOSE j \in 1..Len(ret[1].seen) :
                                ret[1].seen[j] = <<k, Lookup(k)>>}
           /\ Chains = snap.chains

\* A sweep over two shards, after a Delete has removed a key.
C10_Witness ==
    /\ Done("Range")
    /\ arg[1].value = Nil
    /\ Len(ret[1].seen) >= 2
    /\ \E i \in 0..(size - 1) : Len(Chain(i)) = 1
    /\ \E k \in Keys : wrote[1][k] = Gone /\ Lookup(k) = Nil

\* C11: for every shard count N >= 1, index returns a position in 0..N-1
\* for every key and every hash value, and every position 0..N-1, the last
\* one included, is returned for some hash value.
C11_IndexSpansAllShards ==
    /\ \A k \in Keys : index(k) \in 0..(size - 1)
    /\ hist.hit \subseteq 0..(size - 1)
    /\ hist.tried > MaxHash => hist.hit = 0..(size - 1)

\* C12: New with a shard count of zero or less fails inside New: no map
\* with such a count is returned to the caller.
C12_NewRejectsBadCount ==
    size <= 0 => \A t \in Threads : pc[t] = "dead"

\* C13: in every reachable state, under any interleaving of insertions
\* and Deletes, the chain reachable from a slot has no two entries with
\* the same key.
C13_NoDuplicateKeys ==
    \A i \in 0..(size - 1) :
        LET ch == Chain(i)
        IN  \A x, y \in 1..Len(ch) : x # y => key[ch[x]] # key[ch[y]]

\* Keys an insertion call has returned for.
Inserted ==
    hist.inserted \cup
    {arg[t].key : t \in {u \in Threads : /\ pc[u] = "idle"
                                         /\ arg[u].op \in InsertOps
                                         /\ ret[u].st = "ret"}}

\* Keys a Delete call has unlinked an entry for: its CAS has succeeded.
Removed ==
    hist.removed \cup
    {arg[t].key : t \in {u \in Threads :
                            /\ arg[u].op = "Delete"
                            /\ \/ pc[u] = "sub"
                               \/ pc[u] = "idle" /\ ret[u] = Returned(Nil, TRUE)}}

\* C14: under any interleaving of insertions and Deletes every chain is
\* finite and acyclic, and every key an insertion has completed for and no
\* Delete has won is reachable: Load finds it.
C14_ChainStaysValid ==
    /\ \A i \in 0..(size - 1) :
          LET ch == Chain(i)
          IN  /\ Len(ch) <= Len(key)
              /\ \A x, y \in 1..Len(ch) : x # y => ch[x] # ch[y]
    /\ \A k \in Inserted \ Removed : Lookup(k) # Nil

\* A Store has appended an entry and a Delete has unlinked another entry of
\* the same shard, both calls still running, on a filled map.
C14_Witness ==
    /\ hist.inserted # {}
    /\ \E t, u \in Threads :
          /\ pc[t] = "sub"
          /\ pc[u] = "add"
          /\ SameShard(arg[t].key, arg[u].key)
          /\ Lookup(arg[u].key) = arg[u].value
          /\ Lookup(arg[t].key) = Nil

\* Thread t takes the step of its CompareAndSwapPointer.
AtCAS(t) == pc[t] \in {"DeleteHeadCAS", "DeleteCAS"} /\ pc'[t] # pc[t]

\* C15: a Delete call makes at most one CAS: after it the call only
\* updates the counter and returns. A failed CAS returns false at once and
\* leaves the chains and the counter as they were; the counter goes down,
\* by one, only in a Delete whose CAS succeeded and which returns true.
C15_DeleteSingleCAS ==
    [][/\ \A t \in Threads :
            /\ AtCAS(t) =>
                  \/ pc'[t] = "sub" /\ length' = length
                  \/ /\ pc'[t] = "idle"
                     /\ ret'[t] = Returned(Nil, FALSE)
                     /\ Chains' = Chains
                     /\ length' = length
            /\ (pc[t] = "sub" /\ pc'[t] # pc[t]) =>
                  /\ pc'[t] = "idle"
                  /\ ret'[t] = Returned(Nil, TRUE)
                  /\ length' = length - 1
       /\ length' < length =>
            \E t \in Threads : pc[t] = "sub" /\ pc'[t] = "idle"]_vars

\* Two Deletes race for the head: the CAS of one of them is due, after the
\* other has already swung the slot.
C15_Witness ==
    \E t, u \in Threads :
        /\ pc[t] = "DeleteHeadCAS"
        /\ pairs[loc[t].i + 1] # loc[t].ov
        /\ arg[u].op = "Delete"
        /\ pc[u] \in {"sub", "idle"}
        /\ length >= 1

\* Every call that is begun eventually ends, by a return or by a panic.
EveryCallEnds ==
    \A t \in Threads : (pc[t] # "idle") ~> (pc[t] = "idle")

\* C16: every call that is begun runs to completion, the calling thread
\* being scheduled fairly and the other threads issuing finitely many
\* calls: it eventually ends, and it ends by returning.
C16_EveryCallReturns ==
    /\ EveryCallEnds
    /\ [][\A t \in Threads :
            (pc[t] # "idle" /\ pc'[t] = "idle") => ret'[t].st = "ret"]_vars

\* Calls on key k that have reported inserted = true.
Wins(k) == hist.wins[k] + Cardinality({t \in Threads : Won(t) /\ arg[t].key = k})

\* Entries with key k in the chain of k's slot.
Count(k) ==
    LET ch == Chain(index(k))
    IN  Cardinality({j \in 1..Len(ch) : key[ch[j]] = k})

\* C17: threads call LoadOrStore and StoreNotExists concurrently for keys
\* that are absent, with no Store or Delete running: for each such key at
\* most one call reports inserted = true, and exactly one once all calls
\* have returned; one entry is added for it and the counter grows by one;
\* every LoadOrStore call returns the value the winning call stored.
C17_SingleWinner ==
    /\ \A k \in Keys :
          (Issued > 0 /\ snap.contents[k] = Nil) =>
             /\ Wins(k) <= 1
             /\ Count(k) <= 1
             /\ Quiescent => Wins(k) = Count(k)
    /\ \A t \in Threads :
          (pc[t] = "idle" /\ arg[t].op \in RaceOps) =>
             /\ ret[t].st = "ret"
             /\ Count(arg[t].key) = 1
             /\ arg[t].op = "LoadOrStore" => ret[t].val = Lookup(arg[t].key)
    /\ (Quiescent /\ Issued > 0) =>
          Length = snap.length
                   + Cardinality({k \in Keys : snap.contents[k] = Nil /\ Count(k) = 1})

\* A LoadOrStore has returned the value of a call for the same absent key
\* that has inserted it and is still running.
C17_Witness ==
    \E t, u \in Threads :
        /\ pc[t] = "add"
        /\ arg[t].op \in RaceOps
        /\ Issued > 0
        /\ snap.contents[arg[t].key] = Nil
        /\ pc[u] = "idle"
        /\ arg[u].op = "LoadOrStore"
        /\ arg[u].key = arg[t].key
        /\ ret[u] = Returned(arg[t].value, FALSE)

\* The pairs reachable from the slots.
Reachable ==
    UNION {{Chain(i)[j] : j \in 1..Len(Chain(i))} : i \in 0..(size - 1)}

\* C18: in every quiescent state reached by concurrent insertions and
\* Deletes, Length() is the number of entries reachable from the slots,
\* which is the number of keys that Load finds.
C18_LengthIsEntryCount ==
    Quiescent =>
        /\ Length = Cardinality(Reachable)
        /\ Length = Cardinality({k \in Keys : Lookup(k) # Nil})

\* C19: in every reachable state, also in the middle of concurrent
\* insertions and Deletes, Length() is not negative.
C19_LengthNotNegative == Length >= 0

\* The keys that the finished Range of thread t has handed to its visitor.
Visited(t) == {ret[t].seen[j][1] : j \in 1..Len(ret[t].seen)}

====
